---- MODULE Spec2Model ----
(***************************************************************************)
(* Token lifecycle manager of the Leitungsteam platform                    *)
(* (src/lib/services/dataverse/tokenService.ts and the auth routes).       *)
(*                                                                         *)
(* State: the wall clock, the token-cache file, the identity provider's    *)
(* view of the newest device code, and a record of the last call made at   *)
(* the current instant (what it returned and how many token-endpoint       *)
(* requests it made).                                                      *)
(* Further state: the token-endpoint requests in flight (overlapping       *)
(* handlers), the front-end view (records loaded, phases rendered), the    *)
(* LoginPrompt component and the auth state of the page.                   *)
(*                                                                         *)
(* Specifications:                                                         *)
(*   Spec            handlers run one at a time, the provider keeps to     *)
(*                   the protocol, the network may fail                    *)
(*   SpecFaulty      as Spec, token answers may be malformed               *)
(*   SpecStorage     as Spec, operations on the cache file may throw       *)
(*   SpecRoutes      the data routes of one session                        *)
(*   SpecConcurrent  polls and refreshes interleaved at their fetch        *)
(*   SpecPhases      phase classification on the front-end pages           *)
(*   SpecLists       the dashboard on lists of several records             *)
(*   SpecLogoutRace  refreshes and a logout interleaved at every await     *)
(*   SpecLogin       LoginPrompt: device-code flow driven by the browser   *)
(*   SpecLoginFair   as SpecLogin, with fairness of the poll timer, of     *)
(*                   time and of the provider's answers                    *)
(*   SpecPage        DashboardPage: auth check, data load, logout          *)
(***************************************************************************)
EXTENDS Integers, FiniteSets, Sequences, TLC

\* ------------------------------------------------------------------ bounds
MaxTokens == 2      \* distinct access token values the provider issues
MaxCodes  == 1      \* device codes issued in one behaviour
MaxTicks  == 2      \* clock advances in one behaviour
MaxHist   == 2      \* Pending answers counted per device code
MaxInflight == 2    \* token-endpoint requests in flight at one time
MaxRecords == 2     \* records in one loaded list
MaxAttempts == 2    \* device codes one LoginPrompt obtains

\* --------------------------------------------------------- JS value model
Undef     == 0      \* undefined / missing string field (falsy)
UndefNum  == -1     \* undefined numeric field of a provider answer
NaNValue  == -2     \* Date.now() + undefined * 1000
JsonNull  == -3     \* what JSON.stringify writes for NaN

Tokens           == 1..MaxTokens       \* access tokens
RefreshTokens    == {1, 2}
ExpiresInChoices == {300, 600}          \* seconds, as issued by the provider
DeviceExpiresIn  == {300}                \* seconds, validity of a device code
TickSteps        == {1, 300000}          \* ms
ProviderResource == "https://org.crm.dynamics.com"
Resources        == {"", ProviderResource}

\* tokenService.ts:36
TOKEN_REFRESH_BUFFER_MS == 5 * 60 * 1000

\* numeric coercion of a stored expiresAt (null compares and subtracts as 0)
ToNumber(x) == IF x = JsonNull THEN 0 ELSE x

\* ------------------------------------------------------------- the cache
NoCache == [exists |-> FALSE, accessToken |-> Undef, refreshToken |-> Undef,
            expiresAt |-> 0, resource |-> ""]

MkCache(a, r, e, res) ==
  [exists |-> TRUE, accessToken |-> a, refreshToken |-> r,
   expiresAt |-> e, resource |-> res]

\* JSON.stringify followed by JSON.parse: NaN becomes null, undefined
\* fields are dropped (and read back as undefined).
JsonRoundTrip(c) ==
  [c EXCEPT !.expiresAt = IF c.expiresAt = NaNValue THEN JsonNull ELSE c.expiresAt]

\* Date.now() + expires_in * 1000
ExpiryFrom(t, expires_in) ==
  IF expires_in = UndefNum THEN NaNValue ELSE t + expires_in * 1000

\* a || b on string-like values
OrElse(a, b) == IF a = Undef THEN b ELSE a
OrElseStr(a, b) == IF a = "" THEN b ELSE a

VARIABLES
  now,          \* Date.now(), ms
  ticks,        \* clock advances so far
  DATAVERSE_URL,\* process.env.DATAVERSE_URL || ''
  cache,        \* content of CACHE_FILE (NoCache: file absent)
  device,       \* identity provider: state of the newest device code
  issuedCount,  \* device codes issued so far
  pendingSeen,  \* Pending answers the newest device code has received
  last,         \* the last call completed at the current instant
  inflight,     \* token-endpoint requests sent and not yet answered
  view,         \* front-end: the records loaded and what was rendered
  prompt,       \* front-end: state of the LoginPrompt component
  page          \* front-end: auth and load state of the page

vars == <<now, ticks, DATAVERSE_URL, cache, device, issuedCount, pendingSeen,
          last, inflight, view, prompt, page>>

\* ------------------------------------------------- the identity provider
\* What the provider knows about the newest device code (code issuedCount).
\* A new code is requested only after the window of the previous one has
\* elapsed, so every older code is an expired one.
NoDevice == [issuedAt |-> 0, expires_in |-> 0,
             authorized |-> FALSE, redeemed |-> FALSE]

Codes == 1..MaxCodes

\* the validity window of the newest device code has elapsed
NewestElapsed ==
  issuedCount > 0 /\ now >= device.issuedAt + device.expires_in * 1000

\* the validity window of device code c has elapsed
WindowElapsed(c) ==
  c < issuedCount \/ (c = issuedCount /\ NewestElapsed)

\* code c has been issued, is inside its window and waits for the user
AwaitingUser(c) ==
  c = issuedCount /\ ~NewestElapsed /\ ~device.authorized

\* One answer of the token endpoint as the code sees it: fetch rejected or
\* the body was no JSON (threw), response.ok, and the fields of the body.
Answer(threw, ok, error, desc, a, r, e, res) ==
  [threw |-> threw, ok |-> ok, error |-> error, error_description |-> desc,
   access_token |-> a, refresh_token |-> r, expires_in |-> e, resource |-> res]

Thrown == Answer(TRUE, FALSE, "", "", Undef, Undef, UndefNum, "")

ErrorAnswer(error, desc) ==
  Answer(FALSE, FALSE, error, desc, Undef, Undef, UndefNum, "")

\* a token response: access_token, expires_in, and usually a refresh_token
TokenAnswers ==
  { Answer(FALSE, TRUE, "", "", a, r, e, res) :
      a \in Tokens, r \in RefreshTokens \cup {Undef}, e \in ExpiresInChoices,
      res \in Resources }

\* a JSON body with neither an error field nor an access_token
MalformedAnswers ==
  { Answer(FALSE, ok, "", "", Undef, Undef, UndefNum, "") : ok \in BOOLEAN }

\* The answers the token endpoint can give to grant_type=device_code for
\* code c. A provider that keeps to the protocol answers by the state of the
\* code; the network can fail at any time; with faulty = TRUE the body can
\* also be malformed.
PollAnswers(c, faulty) ==
  {Thrown}
  \cup (IF faulty THEN MalformedAnswers ELSE {})
  \cup (IF c > issuedCount   THEN {ErrorAnswer("bad_verification_code", "")}
        ELSE IF WindowElapsed(c) THEN {ErrorAnswer("expired_token", "AADSTS70019")}
        ELSE IF AwaitingUser(c)  THEN {ErrorAnswer("authorization_pending", "AADSTS70016")}
        ELSE IF device.redeemed  THEN {ErrorAnswer("invalid_grant", "AADSTS70002")}
        ELSE TokenAnswers)

\* The answers to grant_type=refresh_token: the provider accepts the refresh
\* token or rejects it with a non-2xx answer.
RefreshAnswers(faulty) ==
  {Thrown, ErrorAnswer("invalid_grant", "AADSTS70002")}
  \cup TokenAnswers
  \cup (IF faulty THEN {Answer(FALSE, TRUE, "", "", Undef, Undef, UndefNum, "")} ELSE {})

\* ---------------------------------------------------- the cache functions
\* loadTokenCache(): the parsed file, or null when there is none
loadTokenCache == cache

\* saveTokenCache(c): the file holds JSON.stringify(c)
saveTokenCache(c) == JsonRoundTrip(c)

\* clearTokenCache(): the file is gone
clearTokenCache == NoCache

\* ------------------------------------------------------------ pure reads
\* isAuthenticated with expiresAt >= now (a Credential expiring now counts)
isAuthenticated_NotStrict(c, t) ==
  IF c.accessToken = Undef THEN FALSE
  ELSE ToNumber(c.expiresAt) >= t

\* isAuthenticated() evaluated on cache file c at time t
isAuthenticated(c, t) ==
  IF c.accessToken = Undef THEN FALSE
  ELSE ToNumber(c.expiresAt) > t

NoExpiresIn == -1

\* getAuthStatus reporting the remaining milliseconds as expiresIn
getAuthStatus_Millis(c, t) ==
  IF c.accessToken = Undef \/ ToNumber(c.expiresAt) <= t
    THEN [isAuthenticated |-> FALSE, expiresIn |-> NoExpiresIn,
          cache |-> c, net |-> 0]
    ELSE [isAuthenticated |-> TRUE,
          expiresIn |-> ToNumber(c.expiresAt) - t,
          cache |-> c, net |-> 0]

\* getAuthStatus trying a refresh inside the buffer, as getValidToken does,
\* the refresh being rejected
getAuthStatus_Refreshing(c, t) ==
  IF c.accessToken = Undef \/ ToNumber(c.expiresAt) <= t
    THEN [isAuthenticated |-> FALSE, expiresIn |-> NoExpiresIn,
          cache |-> c, net |-> 0]
  ELSE IF ToNumber(c.expiresAt) - t < TOKEN_REFRESH_BUFFER_MS
    THEN [isAuthenticated |-> FALSE, expiresIn |-> NoExpiresIn,
          cache |-> clearTokenCache, net |-> 1]
  ELSE [isAuthenticated |-> TRUE,
        expiresIn |-> (ToNumber(c.expiresAt) - t) \div 1000,
        cache |-> c, net |-> 0]

\* getAuthStatus with expiresAt < now in place of <= (a Credential expiring
\* at this very instant is still reported as authenticated)
getAuthStatus_Inclusive(c, t) ==
  IF c.accessToken = Undef \/ ToNumber(c.expiresAt) < t
    THEN [isAuthenticated |-> FALSE, expiresIn |-> NoExpiresIn,
          cache |-> c, net |-> 0]
    ELSE [isAuthenticated |-> TRUE,
          expiresIn |-> (ToNumber(c.expiresAt) - t) \div 1000,
          cache |-> c, net |-> 0]

\* getAuthStatus() evaluated on cache file c at time t: what it returns
\* (expiresIn absent: NoExpiresIn), the file afterwards, and the number of
\* token-endpoint requests it made.
getAuthStatus(c, t) ==
  IF c.accessToken = Undef \/ ToNumber(c.expiresAt) <= t
    THEN [isAuthenticated |-> FALSE, expiresIn |-> NoExpiresIn,
          cache |-> c, net |-> 0]
    ELSE [isAuthenticated |-> TRUE,
          expiresIn |-> (ToNumber(c.expiresAt) - t) \div 1000,
          cache |-> c, net |-> 0]

\* --------------------------------------------------------- pollForToken
ExpiredMessage == "Der Anmelde-Code ist abgelaufen. Bitte erneut starten."

\* PollResult without the expired_token branch
PollResult_ExpiredAsError(ans) ==
  IF ans.error # "" THEN
    IF ans.error = "authorization_pending" THEN [status |-> "pending", error |-> ""]
    ELSE [status |-> "error", error |-> OrElseStr(ans.error_description, ans.error)]
  ELSE [status |-> "success", error |-> ""]

\* what pollForToken returns for provider answer ans (the body was JSON)
PollResult(ans) ==
  IF ans.error # "" THEN
    IF ans.error = "authorization_pending" THEN [status |-> "pending", error |-> ""]
    ELSE IF ans.error = "expired_token" THEN [status |-> "expired", error |-> ExpiredMessage]
    ELSE [status |-> "error", error |-> OrElseStr(ans.error_description, ans.error)]
  ELSE [status |-> "success", error |-> ""]

\* PollCache adding expires_in to Date.now() without the * 1000
PollCache_Seconds(ans, t) ==
  MkCache(ans.access_token, ans.refresh_token,
          IF ans.expires_in = UndefNum THEN NaNValue ELSE t + ans.expires_in,
          OrElseStr(ans.resource, DATAVERSE_URL))

\* the TokenCache pollForToken builds from a token response read at time t
PollCache(ans, t) ==
  MkCache(ans.access_token, ans.refresh_token, ExpiryFrom(t, ans.expires_in),
          OrElseStr(ans.resource, DATAVERSE_URL))

\* PollStore saving whatever body arrived, error answers included
PollStore_AlwaysSaves(c, ans, t) ==
  IF ans.threw THEN c
  ELSE saveTokenCache(MkCache(ans.access_token, ans.refresh_token,
                              ExpiryFrom(t, ans.expires_in),
                              OrElseStr(ans.resource, DATAVERSE_URL)))

\* pollForToken: the file after the call, given the file before it
PollStore(c, ans, t) ==
  IF ans.threw \/ ans.error # "" THEN c ELSE saveTokenCache(PollCache(ans, t))

\* ---------------------------------------------------- refreshAccessToken
\* refreshAccessToken on cache file c with provider answer ans, the answer
\* being read at time t: whether it reports success, the file afterwards,
\* and the number of token-endpoint requests it made.
refreshAccessToken(c, ans, t) ==
  IF c.refreshToken = Undef
    THEN [refreshed |-> FALSE, cache |-> c, net |-> 0]
  ELSE IF ans.threw
    THEN [refreshed |-> FALSE, cache |-> c, net |-> 1]
  ELSE IF ~ans.ok
    THEN [refreshed |-> FALSE, cache |-> clearTokenCache, net |-> 1]
  ELSE [refreshed |-> TRUE,
        cache |-> saveTokenCache(
                    MkCache(ans.access_token,
                            OrElse(ans.refresh_token, c.refreshToken),
                            ExpiryFrom(t, ans.expires_in),
                            OrElseStr(ans.resource, c.resource))),
        net |-> 1]

\* ---------------------------------------------------------- getValidToken
\* needsRefresh with <= in place of <
needsRefresh_Inclusive(c, t) ==
  ToNumber(c.expiresAt) - t <= TOKEN_REFRESH_BUFFER_MS

\* needsRefresh false once expiresAt has passed
needsRefresh_NotWhenExpired(c, t) ==
  /\ ToNumber(c.expiresAt) - t < TOKEN_REFRESH_BUFFER_MS
  /\ ToNumber(c.expiresAt) > t

\* cache.expiresAt - Date.now() < TOKEN_REFRESH_BUFFER_MS
needsRefresh(c, t) == ToNumber(c.expiresAt) - t < TOKEN_REFRESH_BUFFER_MS

\* getValidToken without the check for a stored access token
getValidToken_NoGuard(c, ans, t) ==
  IF needsRefresh(c, t)
    THEN LET r == refreshAccessToken(c, ans, t) IN
         IF ~r.refreshed
           THEN [status |-> "refreshFailed", token |-> Undef,
                 cache |-> r.cache, net |-> r.net]
           ELSE [status |-> "ok", token |-> r.cache.accessToken,
                 cache |-> r.cache, net |-> r.net]
  ELSE [status |-> "ok", token |-> c.accessToken, cache |-> c, net |-> 0]

\* getValidToken on cache file c at time t, a refresh answer (if a refresh
\* is made) being ans.
getValidToken(c, ans, t) ==
  IF c.accessToken = Undef
    THEN [status |-> "notAuthenticated", token |-> Undef, cache |-> c, net |-> 0]
  ELSE IF needsRefresh(c, t)
    THEN LET r == refreshAccessToken(c, ans, t) IN
         IF ~r.refreshed
           THEN [status |-> "refreshFailed", token |-> Undef,
                 cache |-> r.cache, net |-> r.net]
           ELSE [status |-> "ok", token |-> r.cache.accessToken,
                 cache |-> r.cache, net |-> r.net]
  ELSE [status |-> "ok", token |-> c.accessToken, cache |-> c, net |-> 0]

\* =========================================================== front-end
\* ------------------------------------------------ phases of a Vorhaben
\* A string is the sequence of its characters; an absent (undefined) string
\* is told apart from the empty one.
Str(chars) == [defined |-> TRUE, chars |-> chars]
UndefStr   == [defined |-> FALSE, chars |-> <<>>]
EmptyStr   == Str(<<>>)

\* !s on a string: undefined and '' are falsy
Falsy(s) == ~s.defined \/ s.chars = <<>>

UpperLetters == <<"A", "B", "C", "D", "E", "F">>
LowerLetters == <<"a", "b", "c", "d", "e", "f">>

\* String.prototype.toLowerCase / toUpperCase on one character of a GUID
\* (hex digits and '-')
LowerChar(ch) ==
  IF \E k \in 1..6 : UpperLetters[k] = ch
    THEN LowerLetters[CHOOSE k \in 1..6 : UpperLetters[k] = ch] ELSE ch

UpperChar(ch) ==
  IF \E k \in 1..6 : LowerLetters[k] = ch
    THEN UpperLetters[CHOOSE k \in 1..6 : LowerLetters[k] = ch] ELSE ch

toLowerCase(chars) == [i \in DOMAIN chars |-> LowerChar(chars[i])]
toUpperCase(chars) == [i \in DOMAIN chars |-> UpperChar(chars[i])]

\* a spelling with every other character in upper case
MixedCase(chars) ==
  [i \in DOMAIN chars |-> IF i % 2 = 1 THEN UpperChar(chars[i]) ELSE chars[i]]

\* bpfStages.ts: BPF_STAGE_IDS
STAGE_INITIALISIERUNG ==
  <<"d", "7", "7", "0", "e", "3", "7", "0", "-", "8", "d", "a",
    "5", "-", "4", "8", "b", "9", "-", "b", "3", "6", "e", "-",
    "6", "9", "a", "3", "3", "e", "7", "d", "8", "8", "7", "9">>

STAGE_ANALYSE_BEWERTUNG ==
  <<"6", "5", "c", "7", "7", "6", "8", "d", "-", "2", "a", "1",
    "8", "-", "4", "0", "b", "9", "-", "9", "d", "d", "6", "-",
    "0", "3", "5", "8", "1", "9", "e", "9", "2", "6", "b", "a">>

STAGE_PLANUNG ==
  <<"4", "9", "e", "8", "a", "a", "6", "a", "-", "d", "5", "6",
    "f", "-", "4", "8", "f", "a", "-", "b", "8", "0", "a", "-",
    "2", "e", "d", "f", "c", "8", "1", "6", "f", "f", "f", "a">>

STAGE_UMSETZUNG ==
  <<"b", "8", "2", "0", "9", "4", "2", "9", "-", "f", "e", "a",
    "3", "-", "4", "f", "d", "e", "-", "9", "4", "4", "0", "-",
    "2", "b", "c", "1", "6", "8", "b", "f", "1", "4", "b", "3">>

BPF_STAGE_IDS ==
  <<STAGE_INITIALISIERUNG, STAGE_ANALYSE_BEWERTUNG, STAGE_PLANUNG, STAGE_UMSETZUNG>>

\* a well-formed GUID that is none of the four stages
STAGE_OTHER ==
  <<"0", "0", "0", "0", "0", "0", "0", "0", "-", "0", "0", "0",
    "0", "-", "4", "0", "0", "0", "-", "8", "0", "0", "0", "-",
    "0", "0", "0", "0", "0", "0", "0", "0", "0", "0", "a", "b">>

Phases == 1..4
PhaseNames == <<"Initialisierung", "Analyse & Bewertung", "Planung", "Umsetzung">>

\* getPhaseFromStageId comparing the identifier as given (no toLowerCase)
getPhaseFromStageId_CaseSensitive(stageId) ==
  IF Falsy(stageId) THEN 1
  ELSE IF stageId.chars = STAGE_INITIALISIERUNG THEN 1
  ELSE IF stageId.chars = STAGE_ANALYSE_BEWERTUNG THEN 2
  ELSE IF stageId.chars = STAGE_PLANUNG THEN 3
  ELSE IF stageId.chars = STAGE_UMSETZUNG THEN 4
  ELSE 1

\* bpfStages.ts: getPhaseFromStageId(stageId?: string): number
getPhaseFromStageId(stageId) ==
  IF Falsy(stageId) THEN 1
  ELSE LET id == toLowerCase(stageId.chars) IN
       IF id = STAGE_INITIALISIERUNG THEN 1
       ELSE IF id = STAGE_ANALYSE_BEWERTUNG THEN 2
       ELSE IF id = STAGE_PLANUNG THEN 3
       ELSE IF id = STAGE_UMSETZUNG THEN 4
       ELSE 1

\* bpfStages.ts: getPhaseNameFromStageId(stageId?: string): string
getPhaseNameFromStageId(stageId) ==
  IF Falsy(stageId) THEN "Initialisierung"
  ELSE LET id == toLowerCase(stageId.chars) IN
       IF id = STAGE_INITIALISIERUNG THEN "Initialisierung"
       ELSE IF id = STAGE_ANALYSE_BEWERTUNG THEN "Analyse & Bewertung"
       ELSE IF id = STAGE_PLANUNG THEN "Planung"
       ELSE IF id = STAGE_UMSETZUNG THEN "Umsetzung"
       ELSE "Unbekannt"

\* !lifecycleStatus on an optional number: undefined and 0 are falsy
FalsyNum(n) == n = UndefNum \/ n = 0

\* getBpfPhaseFromLifecycle with phase 3 ending at 562520008
getBpfPhaseFromLifecycle_ShortPlanung(lifecycleStatus) ==
  IF FalsyNum(lifecycleStatus) THEN 1
  ELSE IF lifecycleStatus >= 562520000 /\ lifecycleStatus <= 562520002 THEN 1
  ELSE IF lifecycleStatus >= 562520003 /\ lifecycleStatus <= 562520005 THEN 2
  ELSE IF lifecycleStatus >= 562520006 /\ lifecycleStatus <= 562520008 THEN 3
  ELSE IF lifecycleStatus >= 562520010 /\ lifecycleStatus <= 562520011 THEN 4
  ELSE 1

\* vorhaben/[id]/page.tsx: getBpfPhaseFromLifecycle(lifecycleStatus?: number)
getBpfPhaseFromLifecycle(lifecycleStatus) ==
  IF FalsyNum(lifecycleStatus) THEN 1
  ELSE IF lifecycleStatus >= 562520000 /\ lifecycleStatus <= 562520002 THEN 1
  ELSE IF lifecycleStatus >= 562520003 /\ lifecycleStatus <= 562520005 THEN 2
  ELSE IF lifecycleStatus >= 562520006 /\ lifecycleStatus <= 562520009 THEN 3
  ELSE IF lifecycleStatus >= 562520010 /\ lifecycleStatus <= 562520011 THEN 4
  ELSE 1

\* ------------------------------------------------- records and BPF data
\* cr6df_lifecyclestatus values a record can carry
LifecycleInputs ==
  {UndefNum, 0, 999, 562519999} \cup (562520000..562520012)

\* the spellings of one stage GUID
StageSpellings(g) == {g, toUpperCase(g), MixedCase(g)}

\* activeStageId values a process-flow record can carry
StageInputs ==
  {UndefStr, EmptyStr, Str(STAGE_OTHER)}
  \cup { Str(sp) : sp \in UNION { StageSpellings(BPF_STAGE_IDS[k]) : k \in Phases } }

\* bpfData[id]: no entry, or the process-flow record of Vorhaben id
NoBpf == [exists |-> FALSE, activeStageId |-> UndefStr]
BpfEntries == {NoBpf} \cup { [exists |-> TRUE, activeStageId |-> s] : s \in StageInputs }

\* bpf?.activeStageId
ActiveStageId(bpf) == IF bpf.exists THEN bpf.activeStageId ELSE UndefStr

VorhabenIds == {1}
Vorhaben(id, status) == [id |-> id, lifecycleStatus |-> status]

\* phaseLists of the dashboard: the ids in each of the four lists
EmptyLists == [k \in Phases |-> <<>>]

\* DashboardPage.phaseLists: every record is pushed to the list of the phase
\* of its active stage
RECURSIVE PushAll(_, _, _)
PushAll(lists, vorhaben, bpfData) ==
  IF vorhaben = <<>> THEN lists
  ELSE LET item  == Head(vorhaben)
           phase == getPhaseFromStageId(ActiveStageId(bpfData[item.id]))
       IN PushAll([lists EXCEPT ![phase] = Append(@, item.id)],
                  Tail(vorhaben), bpfData)

\* phaseLists filling each list with the records whose badge names it
phaseLists_ByName(vorhaben, bpfData) ==
  [k \in Phases |->
     LET rows == SelectSeq(vorhaben,
                   LAMBDA item :
                     getPhaseNameFromStageId(ActiveStageId(bpfData[item.id]))
                       = PhaseNames[k])
     IN [i \in DOMAIN rows |-> rows[i].id]]

phaseLists(vorhaben, bpfData) ==
  IF Len(vorhaben) = 0 THEN EmptyLists
  ELSE PushAll(EmptyLists, vorhaben, bpfData)

\* VorhabenCollapsibleList: the phase badge of every row
phaseBadges(vorhaben, bpfData) ==
  [i \in DOMAIN vorhaben |->
     getPhaseNameFromStageId(ActiveStageId(bpfData[vorhaben[i].id]))]

\* VorhabenDetailPage: currentPhase handed to BpfProzessfortschritt
currentPhase(item) == getBpfPhaseFromLifecycle(item.lifecycleStatus)

\* nothing rendered yet
NoRender == [dashboard |-> FALSE, badges |-> FALSE, detail |-> FALSE]

View(vorhaben, bpfData) ==
  [vorhaben |-> vorhaben, bpfData |-> bpfData, rendered |-> NoRender,
   phaseLists |-> EmptyLists, badges |-> <<>>, currentPhase |-> 0]

NoView == View(<<>>, [id \in VorhabenIds |-> NoBpf])

\* what GET /api/vorhaben can have delivered: no record, or one record with
\* or without a process-flow record
ViewInputs ==
  {NoView} \cup
  { View(<<Vorhaben(id, st)>>, [i \in VorhabenIds |-> b]) :
      id \in VorhabenIds, st \in LifecycleInputs, b \in BpfEntries }

\* ------------------------------------------------ LoginPrompt and page
\* LoginPrompt: useState('idle'), useState('') for deviceCode (0: '') and
\* error; polls: the poll requests sent and not yet answered; timer: the
\* setTimeout that calls onLoginSuccess is pending
NoPrompt == [status |-> "idle", deviceCode |-> 0, error |-> "",
             polls |-> {}, timer |-> FALSE]

\* DashboardPage: isCheckingAuth, isAuthenticated (null counts as false in
\* every test the page makes), and the message of the error banner as the
\* sequence of its words (none: no banner)
NoPage == [isCheckingAuth |-> TRUE, isAuthenticated |-> FALSE, error |-> <<>>]

\* ------------------------------------------------------- the last call
NoAnswer == Answer(FALSE, FALSE, "", "", Undef, Undef, UndefNum, "")

Call(op) ==
  [op |-> op, code |-> 0, status |-> "ok", error |-> "", token |-> Undef,
   flag |-> FALSE, expiresIn |-> NoExpiresIn, net |-> 0, http |-> 200,
   success |-> TRUE, ans |-> NoAnswer]

\* time passes by d ms between calls
Advance(d) ==
  /\ ticks < MaxTicks
  /\ now' = now + d
  /\ ticks' = ticks + 1

\* The cache file outlives the process: at start there is none, or one an
\* earlier session left behind.
InitialCaches ==
  {NoCache, MkCache(1, 1, 1 + 300 * 1000, ProviderResource)}

Init ==
  /\ now = 1
  /\ ticks = 0
  /\ DATAVERSE_URL \in Resources
  /\ cache \in InitialCaches
  /\ device = NoDevice
  /\ issuedCount = 0
  /\ pendingSeen = 0
  /\ last = Call("init")
  /\ inflight = {}
  /\ prompt = NoPrompt
  /\ page = NoPage
  /\ view = NoView

\* ----------------------------------------------------------- environment
Tick ==
  \E d \in TickSteps :
    /\ Advance(d)
    /\ last' = Call("tick")
    /\ UNCHANGED <<prompt, page, inflight, view, DATAVERSE_URL, cache, device, issuedCount, pendingSeen>>

\* the user enters the user code and authorizes device code c
UserAuthorize ==
  \E c \in Codes :
    /\ AwaitingUser(c)
    /\ device' = [device EXCEPT !.authorized = TRUE]
    /\ UNCHANGED <<prompt, page, inflight, view, now, ticks, DATAVERSE_URL, cache, issuedCount, pendingSeen, last>>

\* ------------------------------------------------ initiateDeviceCodeFlow
\* Initiate sending the device-code request without looking at DATAVERSE_URL
Initiate_RequestsFirst ==
  \/ /\ last' = [Call("initiate") EXCEPT !.status = "failed", !.net = 1,
                   !.http = 500, !.success = FALSE]
     /\ UNCHANGED <<prompt, page, inflight, view, now, ticks, DATAVERSE_URL, cache, device, issuedCount, pendingSeen>>
  \/ /\ issuedCount < MaxCodes
     /\ issuedCount = 0 \/ NewestElapsed
     /\ \E e \in DeviceExpiresIn :
          device' = [issuedAt |-> now, expires_in |-> e,
                     authorized |-> FALSE, redeemed |-> FALSE]
     /\ issuedCount' = issuedCount + 1
     /\ pendingSeen' = 0
     /\ last' = [Call("initiate") EXCEPT !.code = issuedCount + 1, !.net = 1]
     /\ UNCHANGED <<prompt, page, inflight, view, now, ticks, DATAVERSE_URL, cache>>

\* GET /api/dataverse/auth/login -> initiateDeviceCodeFlow()
Initiate ==
  \/ \* DATAVERSE_URL is not configured: throws before any request
     /\ DATAVERSE_URL = ""
     /\ last' = [Call("initiate") EXCEPT !.status = "configError",
                   !.http = 500, !.success = FALSE]
     /\ UNCHANGED <<prompt, page, inflight, view, now, ticks, DATAVERSE_URL, cache, device, issuedCount, pendingSeen>>
  \/ \* the request fails, or the provider answers non-2xx
     /\ DATAVERSE_URL # ""
     /\ last' = [Call("initiate") EXCEPT !.status = "failed", !.net = 1,
                   !.http = 500, !.success = FALSE]
     /\ UNCHANGED <<prompt, page, inflight, view, now, ticks, DATAVERSE_URL, cache, device, issuedCount, pendingSeen>>
  \/ \* the provider issues a device code
     /\ DATAVERSE_URL # ""
     /\ issuedCount < MaxCodes
     /\ issuedCount = 0 \/ NewestElapsed
     /\ \E e \in DeviceExpiresIn :
          device' = [issuedAt |-> now, expires_in |-> e,
                     authorized |-> FALSE, redeemed |-> FALSE]
     /\ issuedCount' = issuedCount + 1
     /\ pendingSeen' = 0
     /\ last' = [Call("initiate") EXCEPT !.code = issuedCount + 1, !.net = 1]
     /\ UNCHANGED <<prompt, page, inflight, view, now, ticks, DATAVERSE_URL, cache>>

\* ------------------------------------------- POST /api/dataverse/auth/poll
\* Pending answers the newest device code has received so far (saturating)
CountPending(n, c, status) ==
  IF c = issuedCount /\ status = "pending" /\ n < MaxHist THEN n + 1 ELSE n

Poll(faulty) ==
  \/ \* deviceCode missing in the request body: 400, pollForToken not called
     /\ last' = [Call("poll") EXCEPT !.status = "notCalled", !.http = 400,
                   !.success = FALSE, !.error = "deviceCode fehlt im Request-Body"]
     /\ UNCHANGED <<prompt, page, inflight, view, now, ticks, DATAVERSE_URL, cache, device, issuedCount, pendingSeen>>
  \/ \E c \in Codes :
       \E ans \in PollAnswers(c, faulty) :
         LET res == IF ans.threw THEN [status |-> "threw", error |-> "fetch failed"]
                    ELSE PollResult(ans)
         IN
         /\ cache' = PollStore(cache, ans, now)
         /\ device' = IF ans \in TokenAnswers
                        THEN [device EXCEPT !.redeemed = TRUE]
                        ELSE device
         /\ pendingSeen' = CountPending(pendingSeen, c, res.status)
         /\ last' = [Call("poll") EXCEPT
                       !.code = c, !.status = res.status, !.error = res.error,
                       !.net = 1, !.ans = ans,
                       !.http = IF ans.threw THEN 500 ELSE 200,
                       !.success = (res.status = "success")]
         /\ UNCHANGED <<prompt, page, inflight, view, now, ticks, DATAVERSE_URL, issuedCount>>

\* ---------------------------------------------------------- getValidToken
GetValidToken(faulty) ==
  \E ans \in RefreshAnswers(faulty) :
    LET r == getValidToken(loadTokenCache, ans, now) IN
    /\ r.net = 0 => ans = Thrown
    /\ cache' = r.cache
    /\ last' = [Call("getValidToken") EXCEPT
                  !.status = r.status, !.token = r.token, !.net = r.net,
                  !.success = (r.status = "ok"),
                  !.ans = IF r.net = 0 THEN NoAnswer ELSE ans]
    /\ UNCHANGED <<prompt, page, inflight, view, now, ticks, DATAVERSE_URL, device, issuedCount, pendingSeen>>

\* ----------------------------------------------------------- pure reads
IsAuthenticated ==
  /\ last' = [Call("isAuthenticated") EXCEPT
                !.flag = isAuthenticated(loadTokenCache, now)]
  /\ UNCHANGED <<prompt, page, inflight, view, now, ticks, DATAVERSE_URL, cache, device, issuedCount, pendingSeen>>

\* GET /api/dataverse/auth -> getAuthStatus()
GetAuthStatus ==
  LET st == getAuthStatus(loadTokenCache, now) IN
  /\ cache' = st.cache
  /\ last' = [Call("getAuthStatus") EXCEPT
                !.flag = st.isAuthenticated, !.expiresIn = st.expiresIn,
                !.net = st.net]
  /\ UNCHANGED <<prompt, page, inflight, view, now, ticks, DATAVERSE_URL, device, issuedCount, pendingSeen>>

\* ------------------------------------ DELETE /api/dataverse/auth -> logout()
\* logout leaving the file in place
logout_KeepsFile(c) == c

\* logout() applied to cache file c: the file afterwards
logout(c) == clearTokenCache

Logout ==
  /\ cache' = logout(cache)
  /\ last' = Call("logout")
  /\ UNCHANGED <<prompt, page, inflight, view, now, ticks, DATAVERSE_URL, device, issuedCount, pendingSeen>>

\* ------------------------------------------------------- specifications
\* The provider keeps to the protocol; the network may fail.
Next ==
  \/ Tick
  \/ UserAuthorize
  \/ Initiate
  \/ Poll(FALSE)
  \/ GetValidToken(FALSE)
  \/ IsAuthenticated
  \/ GetAuthStatus
  \/ Logout

Spec == Init /\ [][Next]_vars

\* As Spec, and the token endpoint may also answer with a malformed body.
NextFaulty ==
  \/ Tick
  \/ UserAuthorize
  \/ Initiate
  \/ Poll(TRUE)
  \/ GetValidToken(TRUE)
  \/ IsAuthenticated
  \/ GetAuthStatus
  \/ Logout

SpecFaulty == Init /\ [][NextFaulty]_vars

\* ============================================== a failing file system
\* The cache-file operation that throws during one call (none: all work).
\* fs errors are caught inside loadTokenCache, saveTokenCache and
\* clearTokenCache, logged, and not rethrown.
FsFaults == {"none", "load", "save", "unlink"}

\* loadTokenCache(): a read that throws gives null
loadTokenCacheFs(c, fault) == IF fault = "load" THEN NoCache ELSE c

\* saveTokenCache(new) on file c: a write that throws leaves the file
saveTokenCacheFs(c, new, fault) ==
  IF fault = "save" THEN c ELSE saveTokenCache(new)

\* clearTokenCache() on file c: an unlink that throws leaves the file
clearTokenCacheFs(c, fault) ==
  IF fault = "unlink" THEN c ELSE clearTokenCache

PollStoreFs(c, ans, t, fault) ==
  IF ans.threw \/ ans.error # "" THEN c
  ELSE saveTokenCacheFs(c, PollCache(ans, t), fault)

refreshAccessTokenFs(c, ans, t, fault) ==
  LET loaded == loadTokenCacheFs(c, fault) IN
  IF loaded.refreshToken = Undef
    THEN [refreshed |-> FALSE, cache |-> c, net |-> 0]
  ELSE IF ans.threw
    THEN [refreshed |-> FALSE, cache |-> c, net |-> 1]
  ELSE IF ~ans.ok
    THEN [refreshed |-> FALSE, cache |-> clearTokenCacheFs(c, fault), net |-> 1]
  ELSE [refreshed |-> TRUE,
        cache |-> saveTokenCacheFs(c,
                    MkCache(ans.access_token,
                            OrElse(ans.refresh_token, loaded.refreshToken),
                            ExpiryFrom(t, ans.expires_in),
                            OrElseStr(ans.resource, loaded.resource)),
                    fault),
        net |-> 1]

getValidTokenFs(c, ans, t, fault) ==
  LET loaded == loadTokenCacheFs(c, fault) IN
  IF loaded.accessToken = Undef
    THEN [status |-> "notAuthenticated", token |-> Undef, cache |-> c, net |-> 0]
  ELSE IF needsRefresh(loaded, t)
    THEN LET r == refreshAccessTokenFs(c, ans, t, fault) IN
         IF ~r.refreshed
           THEN [status |-> "refreshFailed", token |-> Undef,
                 cache |-> r.cache, net |-> r.net]
           ELSE [status |-> "ok",
                 token |-> loadTokenCacheFs(r.cache, fault).accessToken,
                 cache |-> r.cache, net |-> r.net]
  ELSE [status |-> "ok", token |-> loaded.accessToken, cache |-> c, net |-> 0]

logoutFs(c, fault) == clearTokenCacheFs(c, fault)

\* POST /api/dataverse/auth/poll
PollFs ==
  \/ /\ last' = [Call("poll") EXCEPT !.status = "notCalled", !.http = 400,
                   !.success = FALSE, !.error = "deviceCode fehlt im Request-Body"]
     /\ UNCHANGED <<prompt, page, inflight, view, now, ticks, DATAVERSE_URL, cache, device, issuedCount, pendingSeen>>
  \/ \E c \in Codes :
       \E ans \in PollAnswers(c, FALSE) :
         \E fault \in FsFaults :
           LET res == IF ans.threw THEN [status |-> "threw", error |-> "fetch failed"]
                      ELSE PollResult(ans)
           IN
           /\ cache' = PollStoreFs(cache, ans, now, fault)
           /\ device' = IF ans \in TokenAnswers
                          THEN [device EXCEPT !.redeemed = TRUE]
                          ELSE device
           /\ pendingSeen' = CountPending(pendingSeen, c, res.status)
           /\ last' = [Call("poll") EXCEPT
                         !.code = c, !.status = res.status, !.error = res.error,
                         !.net = 1, !.ans = ans,
                         !.http = IF ans.threw THEN 500 ELSE 200,
                         !.success = (res.status = "success")]
           /\ UNCHANGED <<prompt, page, inflight, view, now, ticks, DATAVERSE_URL, issuedCount>>

GetValidTokenFs ==
  \E ans \in RefreshAnswers(FALSE) :
    \E fault \in FsFaults :
      LET r == getValidTokenFs(cache, ans, now, fault) IN
      /\ r.net = 0 => ans = Thrown
      /\ cache' = r.cache
      /\ last' = [Call("getValidToken") EXCEPT
                    !.status = r.status, !.token = r.token, !.net = r.net,
                    !.success = (r.status = "ok"),
                    !.ans = IF r.net = 0 THEN NoAnswer ELSE ans]
      /\ UNCHANGED <<prompt, page, inflight, view, now, ticks, DATAVERSE_URL, device, issuedCount, pendingSeen>>

\* DELETE /api/dataverse/auth
LogoutFs ==
  \E fault \in FsFaults :
    /\ cache' = logoutFs(cache, fault)
    /\ last' = Call("logout")
    /\ UNCHANGED <<prompt, page, inflight, view, now, ticks, DATAVERSE_URL, device, issuedCount, pendingSeen>>

\* As Spec, and an operation on the cache file may throw.
NextStorage ==
  \/ Tick
  \/ UserAuthorize
  \/ Initiate
  \/ PollFs
  \/ GetValidTokenFs
  \/ LogoutFs

SpecStorage == Init /\ [][NextStorage]_vars

\* ========================================================= data routes
DataRoutes ==
  {"GET /api/vorhaben", "POST /api/vorhaben", "GET /api/vorhaben/[id]",
   "PATCH /api/vorhaben/[id]", "DELETE /api/vorhaben/[id]",
   "GET /api/dataverse/whoami"}

\* routes that check an id, a body or a title before calling the service
ValidatingRoutes ==
  {"POST /api/vorhaben", "GET /api/vorhaben/[id]",
   "PATCH /api/vorhaben/[id]", "DELETE /api/vorhaben/[id]"}

\* The message of an Error, as the sequence of its words.
NotAuthenticatedMessage ==
  <<"Nicht", "authentifiziert", ".", "Bitte", "zuerst", "anmelden", ".">>
RefreshFailedMessage ==
  <<"Token", "konnte", "nicht", "erneuert", "werden", ".",
    "Bitte", "erneut", "anmelden", ".">>

\* what Dataverse answers to the request itself
DataverseOutcomes == {"ok", "404", "500"}

\* handleResponse: `HTTP ${status}: ${statusText}`;
\* getWhoAmI: `WhoAmI fehlgeschlagen: ${status} ${statusText}`
DataverseMessage(route, outcome) ==
  LET text == IF outcome = "404" THEN <<"Not", "Found">>
              ELSE <<"Internal", "Server", "Error">>
  IN IF route = "GET /api/dataverse/whoami"
       THEN <<"WhoAmI", "fehlgeschlagen", ":", outcome>> \o text
       ELSE <<"HTTP", outcome, ":">> \o text

\* message.includes(needle)
Includes(message, needle) ==
  \E i \in 1..(Len(message) - Len(needle) + 1) :
    SubSeq(message, i, i + Len(needle) - 1) = needle

\* the status the catch block of a route answers for an Error message
RouteCatch(route, message) ==
  IF route \in {"GET /api/vorhaben", "GET /api/dataverse/whoami"}
    THEN IF Includes(message, <<"authentifiziert">>) \/ Includes(message, <<"Token">>)
           THEN 401 ELSE 500
  ELSE IF route = "GET /api/vorhaben/[id]"
    THEN IF Includes(message, <<"404">>) \/ Includes(message, <<"not", "found">>)
           THEN 404 ELSE 500
  ELSE 500

\* One request to a data route on cache file c at time t: the request
\* passes validation or not, ans answers a refresh (if one is made) and
\* outcome is Dataverse's answer to the request itself.
dataRoute(route, valid, c, ans, t, outcome) ==
  IF ~isAuthenticated(c, t)
    THEN [http |-> 401, status |-> "unauthorized", cache |-> c, net |-> 0]
  ELSE IF ~valid
    THEN [http |-> 400, status |-> "badRequest", cache |-> c, net |-> 0]
  ELSE LET r == getValidToken(c, ans, t) IN
       IF r.status = "notAuthenticated"
         THEN [http |-> RouteCatch(route, NotAuthenticatedMessage),
               status |-> r.status, cache |-> r.cache, net |-> r.net]
       ELSE IF r.status = "refreshFailed"
         THEN [http |-> RouteCatch(route, RefreshFailedMessage),
               status |-> r.status, cache |-> r.cache, net |-> r.net]
       ELSE IF outcome # "ok"
         THEN [http |-> RouteCatch(route, DataverseMessage(route, outcome)),
               status |-> "dataverseError", cache |-> r.cache, net |-> r.net]
       ELSE [http |-> IF route = "POST /api/vorhaben" THEN 201 ELSE 200,
             status |-> "ok", cache |-> r.cache, net |-> r.net]

DataRoute ==
  \E route \in DataRoutes :
    \E valid \in BOOLEAN :
      \E ans \in RefreshAnswers(FALSE) :
        \E outcome \in DataverseOutcomes :
          LET r == dataRoute(route, valid, cache, ans, now, outcome) IN
          /\ valid \/ route \in ValidatingRoutes
          /\ r.net = 0 => ans = Thrown
          /\ r.status \notin {"ok", "dataverseError"} => outcome = "ok"
          /\ cache' = r.cache
          /\ last' = [Call(route) EXCEPT
                        !.status = r.status, !.http = r.http, !.net = r.net,
                        !.success = (r.status = "ok"),
                        !.ans = IF r.net = 0 THEN NoAnswer ELSE ans]
          /\ UNCHANGED <<prompt, page, inflight, view, now, ticks, DATAVERSE_URL, device, issuedCount, pendingSeen>>

\* The data routes of a session that starts with or without a stored
\* Credential; the clock advances and the user may log out.
NextRoutes ==
  \/ Tick
  \/ DataRoute
  \/ Logout

SpecRoutes == Init /\ [][NextRoutes]_vars

\* ================================================= overlapping requests
\* Handlers are async functions: between sending a token-endpoint request
\* and reading its answer other handlers run on the same cache file.
\* A request in flight keeps what its handler read before sending: the
\* device code (poll) or the refreshToken and resource of the cache it
\* loaded (refresh). overtaken: a poll or refresh that started later or ran
\* alongside has stored a Credential since this request was sent.
RequestIds == 1..MaxInflight

FreeIds == { i \in RequestIds : \A r \in inflight : r.id # i }

PollRequest(id, c) ==
  [id |-> id, op |-> "poll", code |-> c, refreshToken |-> Undef,
   resource |-> "", overtaken |-> FALSE]

RefreshRequest(id, c) ==
  [id |-> id, op |-> "refresh", code |-> 0, refreshToken |-> c.refreshToken,
   resource |-> c.resource, overtaken |-> FALSE]

\* the requests still in flight after request r was answered
Remaining(r, stored) ==
  { [q EXCEPT !.overtaken = @ \/ stored] : q \in inflight \ {r} }

\* refreshAccessToken from its fetch on: the answer ans to request r is
\* read at time t, the cache file being c by then
refreshAnswered(c, r, ans, t) ==
  IF ans.threw
    THEN [refreshed |-> FALSE, cache |-> c]
  ELSE IF ~ans.ok
    THEN [refreshed |-> FALSE, cache |-> clearTokenCache]
  ELSE [refreshed |-> TRUE,
        cache |-> saveTokenCache(
                    MkCache(ans.access_token,
                            OrElse(ans.refresh_token, r.refreshToken),
                            ExpiryFrom(t, ans.expires_in),
                            OrElseStr(ans.resource, r.resource)))]

\* pollForToken up to its fetch
PollStart ==
  \E id \in FreeIds :
    \E c \in Codes :
      /\ inflight' = inflight \cup {PollRequest(id, c)}
      /\ UNCHANGED <<prompt, page, view, now, ticks, DATAVERSE_URL, cache, device, issuedCount, pendingSeen, last>>

\* pollForToken from its fetch on
PollDone ==
  \E r \in inflight :
    /\ r.op = "poll"
    /\ \E ans \in PollAnswers(r.code, FALSE) :
         LET res == IF ans.threw THEN [status |-> "threw", error |-> "fetch failed"]
                    ELSE PollResult(ans)
         IN
         /\ cache' = PollStore(cache, ans, now)
         /\ device' = IF ans \in TokenAnswers
                        THEN [device EXCEPT !.redeemed = TRUE]
                        ELSE device
         /\ pendingSeen' = CountPending(pendingSeen, r.code, res.status)
         /\ inflight' = Remaining(r, res.status = "success")
         /\ last' = [Call("poll") EXCEPT
                       !.code = r.code, !.status = res.status, !.error = res.error,
                       !.net = 1, !.ans = ans, !.flag = r.overtaken,
                       !.http = IF ans.threw THEN 500 ELSE 200,
                       !.success = (res.status = "success")]
         /\ UNCHANGED <<prompt, page, view, now, ticks, DATAVERSE_URL, issuedCount>>

\* getValidToken finds the Credential inside the buffer and refreshAccessToken
\* sends the refresh request
RefreshStart ==
  \E id \in FreeIds :
    /\ loadTokenCache.accessToken # Undef
    /\ needsRefresh(loadTokenCache, now)
    /\ loadTokenCache.refreshToken # Undef
    /\ inflight' = inflight \cup {RefreshRequest(id, loadTokenCache)}
    /\ UNCHANGED <<prompt, page, view, now, ticks, DATAVERSE_URL, cache, device, issuedCount, pendingSeen, last>>

\* the refresh request is answered; getValidToken returns or throws
RefreshDone ==
  \E r \in inflight :
    /\ r.op = "refresh"
    /\ \E ans \in RefreshAnswers(FALSE) :
         LET res == refreshAnswered(cache, r, ans, now) IN
         /\ cache' = res.cache
         /\ inflight' = Remaining(r, res.refreshed)
         /\ last' = [Call("getValidToken") EXCEPT
                       !.status = IF res.refreshed THEN "ok" ELSE "refreshFailed",
                       !.token = IF res.refreshed THEN res.cache.accessToken ELSE Undef,
                       !.net = 1, !.ans = ans, !.flag = r.overtaken,
                       !.success = res.refreshed]
         /\ UNCHANGED <<prompt, page, view, now, ticks, DATAVERSE_URL, device, issuedCount, pendingSeen>>

\* Polls and refreshes of several requests, interleaved at their fetch.
NextConcurrent ==
  \/ Tick
  \/ UserAuthorize
  \/ Initiate
  \/ PollStart
  \/ PollDone
  \/ RefreshStart
  \/ RefreshDone

SpecConcurrent == Init /\ [][NextConcurrent]_vars

\* ------------------------------------------- refresh racing with logout
\* getValidToken awaits refreshAccessToken(): the Credential is saved inside
\* refreshAccessToken, and getValidToken reads the file again only when it
\* is resumed after the await. Other handlers run at each await.

\* refreshAccessToken from its fetch on: it saves and returns true (the
\* caller's continuation is still to run), or getValidToken throws
RefreshAnswer ==
  \E r \in inflight :
    /\ r.op = "refresh"
    /\ \E ans \in RefreshAnswers(FALSE) :
         LET res == refreshAnswered(cache, r, ans, now) IN
         /\ cache' = res.cache
         /\ inflight' =
              IF res.refreshed
                THEN Remaining(r, TRUE) \cup {[r EXCEPT !.op = "reload"]}
                ELSE Remaining(r, FALSE)
         /\ last' = [Call("refreshAccessToken") EXCEPT
                       !.status = IF res.refreshed THEN "ok" ELSE "refreshFailed",
                       !.net = 1, !.ans = ans, !.flag = r.overtaken,
                       !.success = res.refreshed]
         /\ UNCHANGED <<prompt, page, view, now, ticks, DATAVERSE_URL, device, issuedCount, pendingSeen>>

\* getValidToken resumed after a successful refresh:
\* const newCache = loadTokenCache(); return newCache!.accessToken
RefreshReturn ==
  \E r \in inflight :
    /\ r.op = "reload"
    /\ inflight' = inflight \ {r}
    /\ last' = IF loadTokenCache.exists
                 THEN [Call("getValidToken") EXCEPT
                         !.token = loadTokenCache.accessToken, !.net = 1,
                         !.flag = r.overtaken]
                 ELSE [Call("getValidToken") EXCEPT
                         !.status = "typeError", !.net = 1, !.success = FALSE,
                         !.error = "Cannot read properties of null (reading 'accessToken')",
                         !.flag = r.overtaken]
    /\ UNCHANGED <<prompt, page, view, now, ticks, DATAVERSE_URL, cache, device, issuedCount, pendingSeen>>

\* The continuation of an await on an already settled promise runs within
\* the same turn of the event loop: the clock does not advance before it.
TickBetweenTurns ==
  /\ \A r \in inflight : r.op # "reload"
  /\ Tick

\* Refreshes of several data requests and a logout, interleaved at every
\* await of getValidToken and refreshAccessToken.
NextLogoutRace ==
  \/ TickBetweenTurns
  \/ RefreshStart
  \/ RefreshAnswer
  \/ RefreshReturn
  \/ Logout

SpecLogoutRace == Init /\ [][NextLogoutRace]_vars

\* ========================================================= LoginPrompt
\* The component starts the device-code flow, polls the poll route on a
\* timer while it is 'waiting' and handles each answer when it arrives.
serverVars == <<now, ticks, DATAVERSE_URL, cache, device, issuedCount,
                pendingSeen, last>>

FreePollIds == { i \in RequestIds : \A p \in prompt.polls : p.id # i }

\* pollForToken (LoginPrompt) after its fetch: the state of the component
\* once the answer res of the poll route has been handled
pollAnswerHandled(pr, res) ==
  IF res.status = "success"
    THEN [pr EXCEPT !.status = "success", !.timer = TRUE]
  ELSE IF res.status \in {"expired", "error"}
    THEN [pr EXCEPT !.status = "error",
                    !.error = OrElseStr(res.error, "Anmeldung fehlgeschlagen")]
  ELSE pr

\* startLogin: GET /api/dataverse/auth/login and the handling of its answer.
\* A further device code is obtained once the previous one is of no use any
\* more: its window has elapsed or it has been redeemed (the provider
\* answers polls of such a code with an error).
StartLogin ==
  /\ ~page.isCheckingAuth /\ ~page.isAuthenticated
  /\ prompt.status \in {"idle", "error"}
  /\ \/ \* the request fails, or the route answers success: false
        /\ prompt' = [prompt EXCEPT !.status = "error",
                        !.error = "Login konnte nicht gestartet werden"]
        /\ last' = [Call("initiate") EXCEPT
                      !.status = IF DATAVERSE_URL = "" THEN "configError" ELSE "failed",
                      !.net = IF DATAVERSE_URL = "" THEN 0 ELSE 1,
                      !.http = 500, !.success = FALSE]
        /\ UNCHANGED <<now, ticks, DATAVERSE_URL, cache, device, issuedCount, pendingSeen>>
     \/ \* the provider issues a device code and the prompt waits on it
        /\ DATAVERSE_URL # ""
        /\ issuedCount < MaxAttempts
        /\ issuedCount = 0 \/ NewestElapsed \/ device.redeemed
        /\ \E e \in DeviceExpiresIn :
             device' = [issuedAt |-> now, expires_in |-> e,
                        authorized |-> FALSE, redeemed |-> FALSE]
        /\ issuedCount' = issuedCount + 1
        /\ pendingSeen' = 0
        /\ prompt' = [prompt EXCEPT !.status = "waiting", !.error = "",
                        !.deviceCode = issuedCount + 1]
        /\ last' = [Call("initiate") EXCEPT !.code = issuedCount + 1, !.net = 1]
        /\ UNCHANGED <<now, ticks, DATAVERSE_URL, cache>>
  /\ UNCHANGED <<inflight, view, page>>

\* the interval timer fires: pollForToken (LoginPrompt) up to its fetch
PollSend ==
  /\ prompt.status = "waiting"
  /\ prompt.deviceCode # 0
  /\ FreePollIds # {}
  /\ LET id == CHOOSE i \in FreePollIds : \A j \in FreePollIds : i <= j IN
     prompt' = [prompt EXCEPT
                  !.polls = @ \cup {[id |-> id, code |-> prompt.deviceCode]}]
  /\ UNCHANGED <<serverVars, inflight, view, page>>

\* The poll route handles poll p, the provider answering ans, and the
\* component handles the route's answer. A request to the provider that
\* throws is answered by the route with status 'error' (500).
PollArrives(p, ans) ==
  LET res == IF ans.threw THEN [status |-> "error", error |-> "fetch failed"]
             ELSE PollResult(ans)
  IN
  /\ cache' = PollStore(cache, ans, now)
  /\ device' = IF ans \in TokenAnswers
                 THEN [device EXCEPT !.redeemed = TRUE]
                 ELSE device
  /\ pendingSeen' = CountPending(pendingSeen, p.code, res.status)
  /\ prompt' = pollAnswerHandled([prompt EXCEPT !.polls = @ \ {p}], res)
  /\ last' = [Call("poll") EXCEPT
                !.code = p.code, !.status = res.status, !.error = res.error,
                !.net = 1, !.ans = ans,
                !.http = IF ans.threw THEN 500 ELSE 200,
                !.success = (res.status = "success")]
  /\ UNCHANGED <<now, ticks, DATAVERSE_URL, issuedCount, inflight, view, page>>

\* the provider answers the poll
PollAnswered ==
  \E p \in prompt.polls :
    \E ans \in PollAnswers(p.code, FALSE) \ {Thrown} :
      PollArrives(p, ans)

\* the route cannot reach the provider
PollFailed ==
  \E p \in prompt.polls : PollArrives(p, Thrown)

\* the browser cannot reach the route: the catch block logs the error
PollLost ==
  \E p \in prompt.polls :
    /\ prompt' = [prompt EXCEPT !.polls = @ \ {p}]
    /\ UNCHANGED <<serverVars, inflight, view, page>>

\* setTimeout(() => onLoginSuccess(), 1500): the page shows its data view
\* and LoginPrompt is unmounted
LoginSuccessTimer ==
  /\ prompt.timer
  /\ page' = [page EXCEPT !.isAuthenticated = TRUE]
  /\ prompt' = NoPrompt
  /\ UNCHANGED <<serverVars, inflight, view>>

\* LoginPrompt.tsx:92: delay of the timer that calls onLoginSuccess
LOGIN_SUCCESS_DELAY_MS == 1500

\* the clock advances; a pending onLoginSuccess timer fires before its
\* delay has passed
TickLogin ==
  \E d \in TickSteps :
    /\ prompt.timer => d < LOGIN_SUCCESS_DELAY_MS
    /\ Advance(d)
    /\ last' = Call("tick")
    /\ UNCHANGED <<DATAVERSE_URL, cache, device, issuedCount, pendingSeen,
                   inflight, view, prompt, page>>

\* the user enters the user code of the newest device code and authorizes it
UserEntersCode ==
  /\ AwaitingUser(issuedCount)
  /\ device' = [device EXCEPT !.authorized = TRUE]
  /\ UNCHANGED <<now, ticks, DATAVERSE_URL, cache, issuedCount, pendingSeen,
                 last, inflight, view, prompt, page>>

\* time reaches the end of the validity window of the newest device code
CodeExpires ==
  /\ issuedCount > 0
  /\ ~NewestElapsed
  /\ ~prompt.timer
  /\ now' = device.issuedAt + device.expires_in * 1000
  /\ last' = Call("tick")
  /\ UNCHANGED <<ticks, DATAVERSE_URL, cache, device, issuedCount, pendingSeen,
                 inflight, view, prompt, page>>

\* checkAuthStatus on mount: GET /api/dataverse/auth -> getAuthStatus();
\* a request that fails counts as not authenticated
CheckAuthStatus ==
  /\ page.isCheckingAuth
  /\ \/ LET st == getAuthStatus(loadTokenCache, now) IN
        /\ page' = [page EXCEPT !.isCheckingAuth = FALSE,
                                !.isAuthenticated = st.isAuthenticated]
        /\ cache' = st.cache
        /\ last' = [Call("getAuthStatus") EXCEPT
                      !.flag = st.isAuthenticated, !.expiresIn = st.expiresIn,
                      !.net = st.net]
     \/ /\ page' = [page EXCEPT !.isCheckingAuth = FALSE,
                                !.isAuthenticated = FALSE]
        /\ UNCHANGED <<cache, last>>
  /\ UNCHANGED <<now, ticks, DATAVERSE_URL, device, issuedCount, pendingSeen,
                 inflight, view, prompt>>

NextLogin ==
  \/ TickLogin
  \/ CheckAuthStatus
  \/ CodeExpires
  \/ UserEntersCode
  \/ StartLogin
  \/ PollSend
  \/ PollAnswered
  \/ PollFailed
  \/ PollLost
  \/ LoginSuccessTimer

SpecLogin == Init /\ [][NextLogin]_vars

\* The poll timer keeps firing while the prompt waits, time passes, and the
\* provider answers a poll again and again.
SpecLoginFair ==
  /\ SpecLogin
  /\ WF_vars(PollSend)
  /\ WF_vars(CodeExpires)
  /\ SF_vars(PollAnswered)

\* ====================================================== DashboardPage
\* the error text a data route answers with
RouteErrorText(route, status, outcome) ==
  IF status \in {"unauthorized", "notAuthenticated"} THEN NotAuthenticatedMessage
  ELSE IF status = "refreshFailed" THEN RefreshFailedMessage
  ELSE DataverseMessage(route, outcome)

\* loadVorhaben after its fetch: the page once the answer r of
\* GET /api/vorhaben has been handled
vorhabenLoaded(pg, r, outcome) ==
  IF r.status = "ok" THEN [pg EXCEPT !.error = <<>>]
  ELSE [pg EXCEPT !.error = RouteErrorText("GET /api/vorhaben", r.status, outcome)]

\* loadVorhaben: run when the page becomes authenticated and on a click on
\* 'Aktualisieren' or 'Erneut versuchen'
LoadVorhaben ==
  /\ ~page.isCheckingAuth /\ page.isAuthenticated
  /\ \/ \E ans \in RefreshAnswers(FALSE) :
          \E outcome \in DataverseOutcomes :
            LET r == dataRoute("GET /api/vorhaben", TRUE, cache, ans, now, outcome) IN
            /\ r.net = 0 => ans = Thrown
            /\ r.status \notin {"ok", "dataverseError"} => outcome = "ok"
            /\ cache' = r.cache
            /\ page' = vorhabenLoaded(page, r, outcome)
            /\ last' = [Call("GET /api/vorhaben") EXCEPT
                          !.status = r.status, !.http = r.http, !.net = r.net,
                          !.success = (r.status = "ok"),
                          !.ans = IF r.net = 0 THEN NoAnswer ELSE ans]
     \/ \* the request does not reach the route
        /\ page' = [page EXCEPT !.error = <<"Failed", "to", "fetch">>]
        /\ UNCHANGED <<cache, last>>
  /\ UNCHANGED <<now, ticks, DATAVERSE_URL, device, issuedCount, pendingSeen,
                 inflight, view, prompt>>

\* handleLogout: DELETE /api/dataverse/auth, then setIsAuthenticated(false);
\* a request that fails is only logged
HandleLogout ==
  /\ ~page.isCheckingAuth /\ page.isAuthenticated
  /\ \/ /\ cache' = logout(cache)
        /\ last' = Call("logout")
        /\ page' = [page EXCEPT !.isAuthenticated = FALSE]
     \/ UNCHANGED <<cache, last, page>>
  /\ UNCHANGED <<now, ticks, DATAVERSE_URL, device, issuedCount, pendingSeen,
                 inflight, view, prompt>>

\* the browser loads the page anew
Reload ==
  /\ ~page.isCheckingAuth
  /\ page' = NoPage
  /\ prompt' = NoPrompt
  /\ UNCHANGED <<serverVars, inflight, view>>

\* The dashboard of a session that starts with or without a stored
\* Credential.
NextPage ==
  \/ Tick
  \/ CheckAuthStatus
  \/ LoadVorhaben
  \/ HandleLogout
  \/ Reload

SpecPage == Init /\ [][NextPage]_vars

\* ------------------------------------------------------ front-end pages
tokenVars == <<now, ticks, DATAVERSE_URL, cache, device, issuedCount,
               pendingSeen, last, inflight>>

\* the dashboard groups the loaded records into its four phase lists
RenderDashboard ==
  /\ view' = [view EXCEPT !.rendered.dashboard = TRUE,
                !.phaseLists = phaseLists(view.vorhaben, view.bpfData)]
  /\ UNCHANGED <<tokenVars, prompt, page>>

\* VorhabenCollapsibleList renders the rows with their phase badge
RenderBadges ==
  /\ view' = [view EXCEPT !.rendered.badges = TRUE,
                !.badges = phaseBadges(view.vorhaben, view.bpfData)]
  /\ UNCHANGED <<tokenVars, prompt, page>>

\* the detail page of the first record shows the process progress
RenderDetail ==
  /\ Len(view.vorhaben) >= 1
  /\ view' = [view EXCEPT !.rendered.detail = TRUE,
                !.currentPhase = currentPhase(view.vorhaben[1])]
  /\ UNCHANGED <<tokenVars, prompt, page>>

\* The pages, on every record list the API can have delivered.
InitPhases ==
  /\ now = 1
  /\ ticks = 0
  /\ DATAVERSE_URL = ProviderResource
  /\ cache = NoCache
  /\ device = NoDevice
  /\ issuedCount = 0
  /\ pendingSeen = 0
  /\ last = Call("init")
  /\ inflight = {}
  /\ prompt = NoPrompt
  /\ page = NoPage
  /\ view \in ViewInputs

NextPhases ==
  \/ RenderDashboard
  \/ RenderBadges
  \/ RenderDetail

SpecPhases == InitPhases /\ [][NextPhases]_vars

\* ------------------------------------------- lists of several records
\* The records GET /api/vorhaben delivers carry distinct primary keys; the
\* process-flow map may hold an entry for any of them.
RecordIds == 1..MaxRecords

RecordLists ==
  { l \in UNION { [1..n -> RecordIds] : n \in 0..MaxRecords } :
      \A i, j \in DOMAIN l : i # j => l[i] # l[j] }

\* process-flow entries of a record: none, one without active stage, an
\* unmatched stage, and stages of phases 2, 3 and 4 in three spellings
ListBpfEntries ==
  {NoBpf} \cup
  { [exists |-> TRUE, activeStageId |-> st] :
      st \in {UndefStr, Str(STAGE_OTHER), Str(STAGE_ANALYSE_BEWERTUNG),
              Str(toUpperCase(STAGE_PLANUNG)), Str(MixedCase(STAGE_UMSETZUNG))} }

ListInputs ==
  { View([i \in DOMAIN l |-> Vorhaben(l[i], 562520006)], b) :
      l \in RecordLists, b \in [RecordIds -> ListBpfEntries] }

InitLists ==
  /\ now = 1
  /\ ticks = 0
  /\ DATAVERSE_URL = ProviderResource
  /\ cache = NoCache
  /\ device = NoDevice
  /\ issuedCount = 0
  /\ pendingSeen = 0
  /\ last = Call("init")
  /\ inflight = {}
  /\ prompt = NoPrompt
  /\ page = NoPage
  /\ view \in ListInputs

\* The pages on lists of up to MaxRecords records.
SpecLists == InitLists /\ [][NextPhases]_vars

\* ================================================================ claims
\* a call of handler op has just been made
Called(op) == last.op = op

\* this step is a call of handler op
OpStep(op) == last'.op = op /\ (last' # last \/ cache' # cache)

\* a Credential is stored and valid, in the words of the data model
ValidCredential ==
  cache.exists /\ cache.accessToken # Undef /\ cache.expiresAt > now

\* ----------------------------------------------------------------- C1
\* C1: whenever getValidToken() fails because the refresh did not succeed
\* (non-2xx answer, the request threw, or no refresh token stored), the
\* stored Credential has been deleted and isAuthenticated() is false.
C1_RefreshFailureDeletesCredential ==
  (Called("getValidToken") /\ last.status = "refreshFailed")
    => (cache = NoCache /\ ~isAuthenticated(cache, now))

\* ----------------------------------------------------------------- C2
\* C2: with a stored Credential, getValidToken() returns the stored
\* accessToken without any request when expiresAt - now is at least the
\* 5-minute buffer; when it is less (also when expiresAt has passed) it
\* never makes more than one request, and when it returns it has made
\* exactly one refresh request and returns the token that refresh issued.
C2_GetValidTokenRefreshPolicy ==
  [][ (OpStep("getValidToken") /\ cache.accessToken # Undef) =>
        IF cache.expiresAt - now >= 5 * 60 * 1000
          THEN /\ last'.status = "ok"
               /\ last'.token = cache.accessToken
               /\ last'.net = 0
               /\ cache' = cache
          ELSE /\ last'.net <= 1
               /\ last'.status = "ok" =>
                    /\ last'.net = 1
                    /\ last'.token = last'.ans.access_token
                    /\ last'.token # Undef
                    /\ cache'.accessToken = last'.token
    ]_vars

\* a refresh round trip was made and the refreshed token was returned
C2_Witness ==
  /\ Called("getValidToken") /\ last.status = "ok" /\ last.net = 1
  /\ last.token = last.ans.access_token
  /\ cache.accessToken = last.token

\* ----------------------------------------------------------------- C3
\* C3: in every reachable state isAuthenticated() is true iff a Credential
\* is stored whose accessToken is non-empty and whose expiresAt is strictly
\* greater than now; the 5-minute refresh buffer plays no part.
C3_IsAuthenticatedIffValid ==
  /\ isAuthenticated(loadTokenCache, now) <=> ValidCredential
  /\ Called("isAuthenticated") => (last.flag <=> ValidCredential)

\* isAuthenticated() answered true for a Credential inside the refresh buffer
C3_Witness ==
  /\ Called("isAuthenticated") /\ last.flag
  /\ cache.expiresAt - now < TOKEN_REFRESH_BUFFER_MS

\* ----------------------------------------------------------------- C4
\* the message the provider reported with an error answer
ProviderMessage(ans) ==
  IF ans.error_description # "" THEN ans.error_description ELSE ans.error

C6_PendingPollChangesNothing ==
  [][ (OpStep("poll") /\ last'.status # "notCalled" /\ AwaitingUser(last'.code)) =>
        /\ last'.status \in {"pending", "threw"}
        /\ cache' = cache
    ]_vars

\* the code was polled Pending repeatedly while a Credential was stored
C6_Witness ==
  /\ Called("poll") /\ last.status = "pending" /\ pendingSeen >= 2
  /\ AwaitingUser(last.code)
  /\ cache \in InitialCaches \ {NoCache}

\* ----------------------------------------------------------------- C7
\* C7: after initiate and polls returning Pending, Pending, Success with an
\* issued expires_in above 5 minutes, isAuthenticated() is true,
\* getAuthStatus() read at that instant reports isAuthenticated with
\* expiresIn equal to the issued expires_in, and getValidToken() returns the
\* access token that poll issued, making no request.
C7_LoginScenario ==
  (/\ Called("poll") /\ last.status = "success" /\ last.code = issuedCount
   /\ pendingSeen >= 2 /\ last.ans.expires_in > 5 * 60)
    => /\ isAuthenticated(loadTokenCache, now)
       /\ getAuthStatus(loadTokenCache, now).isAuthenticated
       /\ getAuthStatus(loadTokenCache, now).expiresIn = last.ans.expires_in
       /\ \A ans \in RefreshAnswers(FALSE) :
            LET r == getValidToken(loadTokenCache, ans, now) IN
            /\ r.status = "ok"
            /\ r.token = last.ans.access_token
            /\ r.net = 0
            /\ r.cache = cache

\* Pending, Pending, Success with expires_in = 600 has just happened
C7_Witness ==
  /\ Called("poll") /\ last.status = "success" /\ last.code = issuedCount
  /\ pendingSeen >= 2 /\ last.ans.expires_in = 600

C9_StatusReadsArePure ==
  [][ (OpStep("getAuthStatus") \/ OpStep("isAuthenticated")) =>
        /\ cache' = cache
        /\ last'.net = 0
        /\ UNCHANGED <<device, issuedCount, pendingSeen, now>>
    ]_vars

\* the status was read while the stored Credential was inside the buffer
C9_Witness ==
  /\ Called("getAuthStatus") /\ last.flag
  /\ cache.exists /\ cache.expiresAt - now < TOKEN_REFRESH_BUFFER_MS

\* ---------------------------------------------------------------- C10
\* the provider's answer to the last poll had neither an error field nor
\* an access_token
MalformedPoll ==
  /\ Called("poll") /\ last.status # "notCalled"
  /\ ~last.ans.threw /\ last.ans.error = "" /\ last.ans.access_token = Undef

\* C10: when the provider's answer to a poll is non-2xx or malformed,
\* pollForToken reports an error, not Success, and writes no Credential, so
\* no stored Credential ever has an empty or missing accessToken.
C10_MalformedAnswerIsAnError ==
  /\ MalformedPoll => (last.status = "error" /\ ~last.success)
  /\ cache.exists => cache.accessToken # Undef

\* ---------------------------------------------------------------- C15
\* the record shown on the detail page
Shown == view.vorhaben[1]

\* the four code ranges of the lifecycle status, by phase
LifecycleRange(k) ==
  CASE k = 1 -> 562520000..562520002
    [] k = 2 -> 562520003..562520005
    [] k = 3 -> 562520006..562520009
    [] k = 4 -> 562520010..562520011

\* C15: getBpfPhaseFromLifecycle returns exactly one phase for every input:
\* phase k for a status in the k-th range (562520000..02, ..03..05, ..06..09,
\* ..10..11), and 1 (Initialisierung) for undefined and for every integer
\* outside the ranges (0, 999, 562520012); the four ranges are pairwise
\* disjoint.
C15_LifecycleClassifierTotal ==
  /\ \A j, k \in Phases : j # k => LifecycleRange(j) \cap LifecycleRange(k) = {}
  /\ view.rendered.detail =>
       /\ view.currentPhase \in Phases
       /\ \A k \in Phases :
            Shown.lifecycleStatus \in LifecycleRange(k) => view.currentPhase = k
       /\ (\A k \in Phases : Shown.lifecycleStatus \notin LifecycleRange(k))
            => view.currentPhase = 1

\* the detail page showed a record with status 562520012 in phase 1
C15_Witness ==
  /\ view.rendered.detail
  /\ Shown.lifecycleStatus = 562520012
  /\ view.currentPhase = 1

\* ---------------------------------------------------------------- C16
\* the dashboard list the record with this id was pushed to (0: none)
ListOf(id) ==
  IF \E k \in Phases : \E i \in DOMAIN view.phaseLists[k] : view.phaseLists[k][i] = id
    THEN CHOOSE k \in Phases : \E i \in DOMAIN view.phaseLists[k] : view.phaseLists[k][i] = id
    ELSE 0

\* C16: getPhaseFromStageId gives phase k for the k-th stage GUID in its
\* lower-case, upper-case and mixed-case spelling alike, and 1
\* (Initialisierung) for an absent, empty or unmatched identifier.
C16_StageClassifierIgnoresCase ==
  view.rendered.dashboard =>
    \A i \in DOMAIN view.vorhaben :
      LET id    == view.vorhaben[i].id
          stage == ActiveStageId(view.bpfData[id])
      IN
      /\ \A k \in Phases :
           (stage.defined /\ stage.chars \in StageSpellings(BPF_STAGE_IDS[k]))
             => ListOf(id) = k
      /\ (~stage.defined \/ stage.chars = <<>> \/ stage.chars = STAGE_OTHER)
             => ListOf(id) = 1

\* the dashboard put a record whose active stage is the upper-case spelling
\* of the Umsetzung GUID into the Umsetzung list
C16_Witness ==
  /\ view.rendered.dashboard
  /\ Len(view.vorhaben) = 1
  /\ view.bpfData[Shown.id].exists
  /\ view.bpfData[Shown.id].activeStageId = Str(toUpperCase(STAGE_UMSETZUNG))
  /\ ListOf(Shown.id) = 4

\* ---------------------------------------------------------------- C17
\* the phase the callers are to show for a record: by its active stage when
\* a process-flow record exists, by its lifecycle status otherwise
PreferredPhase(item, bpf) ==
  IF bpf.exists THEN getPhaseFromStageId(bpf.activeStageId)
  ELSE getBpfPhaseFromLifecycle(item.lifecycleStatus)

\* C17: the dashboard phase lists, the list badges and the detail page all
\* show a record in the phase of its active stage when a process-flow
\* record exists for it, and in the phase of its lifecycle status
\* otherwise (no process-flow record, status 562520010: Umsetzung).
C17_CallersPreferStage ==
  \A i \in DOMAIN view.vorhaben :
    LET item == view.vorhaben[i]
        bpf  == view.bpfData[item.id]
    IN
    /\ view.rendered.dashboard => ListOf(item.id) = PreferredPhase(item, bpf)
    /\ view.rendered.badges =>
         view.badges[i] = IF bpf.exists
                            THEN getPhaseNameFromStageId(bpf.activeStageId)
                            ELSE PhaseNames[PreferredPhase(item, bpf)]
    /\ (view.rendered.detail /\ i = 1) =>
         view.currentPhase = PreferredPhase(item, bpf)

\* ---------------------------------------------------------------- C13
\* C13: initiateDeviceCodeFlow() fails with the configuration error,
\* before any request, when DATAVERSE_URL is not configured; and whether it
\* succeeds or fails it leaves the Credential store as it was (the device
\* code is never persisted).
C13_InitiateLeavesStore ==
  [][ OpStep("initiate") =>
        /\ cache' = cache
        /\ DATAVERSE_URL = "" =>
             /\ last'.status = "configError"
             /\ last'.net = 0
             /\ ~last'.success
    ]_vars

\* initiate failed on the missing DATAVERSE_URL while a Credential was stored
C13_Witness ==
  /\ Called("initiate") /\ last.status = "configError" /\ last.net = 0
  /\ DATAVERSE_URL = "" /\ cache.exists

\* ---------------------------------------------------------------- C14
\* C14: whenever no Credential is stored, or the stored one has no
\* accessToken, getValidToken() fails with the not-authenticated error,
\* makes no request and leaves the Credential store unchanged.
C14_NoCredentialNotAuthenticated ==
  [][ (OpStep("getValidToken") /\ cache.accessToken = Undef) =>
        /\ last'.status = "notAuthenticated"
        /\ ~last'.success
        /\ last'.token = Undef
        /\ last'.net = 0
        /\ cache' = cache
    ]_vars

\* getValidToken failed not-authenticated with nothing stored
C14_Witness ==
  /\ Called("getValidToken") /\ last.status = "notAuthenticated"
  /\ last.net = 0 /\ cache = NoCache

\* ---------------------------------------------------------------- C19
\* the last call stored a Credential: a poll returned Success, or
\* getValidToken returned after a refresh
StoredCredential ==
  \/ Called("poll") /\ last.status = "success"
  \/ Called("getValidToken") /\ last.status = "ok" /\ last.net = 1

\* C19: after a successful poll or refresh the stored Credential is the
\* newly issued one as a whole: its accessToken, refreshToken, expiresAt
\* and resource are those of that provider response, none carried over
\* from the Credential stored before or filled in from elsewhere.
C19_CredentialReplacedWholesale ==
  StoredCredential =>
    /\ cache.exists
    /\ cache.accessToken = last.ans.access_token
    /\ cache.refreshToken = last.ans.refresh_token
    /\ cache.expiresAt = now + last.ans.expires_in * 1000
    /\ cache.resource = last.ans.resource

\* ---------------------------------------------------------------- C20
\* C20: when the stored Credential has expired (expiresAt <= now), the
\* next getValidToken() tries a refresh: with a stored refresh token it
\* makes one refresh request, and if the provider accepts it the call
\* returns the newly issued access token and isAuthenticated() is true
\* again; in every other case the call fails with the refresh error.
C20_ExpiredCredentialRecovers ==
  [][ (/\ OpStep("getValidToken")
       /\ cache.accessToken # Undef
       /\ ToNumber(cache.expiresAt) <= now) =>
        /\ cache.refreshToken # Undef => last'.net = 1
        /\ IF cache.refreshToken # Undef /\ last'.ans \in TokenAnswers
             THEN /\ last'.status = "ok"
                  /\ last'.token = last'.ans.access_token
                  /\ cache'.accessToken = last'.token
                  /\ isAuthenticated(cache', now')
             ELSE /\ last'.status = "refreshFailed"
                  /\ ~last'.success
    ]_vars

\* No poll has succeeded and the clock stands at the instant the Credential
\* of the session start expires (no refresh is due before that instant):
\* getValidToken refreshed it and the session is authenticated again.
C20_Witness ==
  /\ Called("getValidToken") /\ last.status = "ok" /\ last.net = 1
  /\ issuedCount = 0 /\ now = 1 + 300 * 1000
  /\ isAuthenticated(cache, now)
  /\ cache.accessToken = last.ans.access_token

\* ---------------------------------------------------------------- C11
\* C11: no failure is swallowed: pollForToken returns Success only with
\* the issued Credential persisted, getValidToken returns after a refresh
\* only with the refreshed Credential persisted, and logout reports success
\* only with the Credential removed, also when an operation on the cache
\* file fails.
C11_NoSilentFailure ==
  /\ (Called("poll") /\ last.status = "success") =>
       (cache.exists /\ cache.accessToken = last.ans.access_token)
  /\ (Called("getValidToken") /\ last.status = "ok" /\ last.net = 1) =>
       (cache.exists /\ cache.accessToken = last.ans.access_token)
  /\ (Called("logout") /\ last.success) => cache = NoCache

\* ---------------------------------------------------------------- C12
\* the last request to a data route failed for want of a valid Credential
\* or because the token refresh failed
AuthFailure ==
  /\ last.op \in DataRoutes
  /\ last.status \in {"unauthorized", "notAuthenticated", "refreshFailed"}

\* C12: every data route answers a request that fails because no valid
\* Credential exists, or because the token refresh failed, with HTTP 401,
\* never with 500 or a success status.
C12_AuthFailuresAnswer401 ==
  AuthFailure => (last.http = 401 /\ ~last.success)

\* ---------------------------------------------------------------- C18
\* this step answers a poll or refresh request that was overtaken by a
\* successful poll or refresh, and the answered operation fails or is a
\* refresh (which started from the Credential stored before)
OvertakenAnswered ==
  /\ inflight' # inflight
  /\ last'.op \in {"poll", "getValidToken"}
  /\ last'.net = 1
  /\ last'.flag
  /\ ~last'.success \/ last'.op = "getValidToken"

\* C18: however polls, refreshes and their round trips interleave, an
\* operation that fails, or that started from an older Credential, never
\* deletes or replaces the Credential stored by a successful poll or
\* refresh that completed after it started, so the store holds the
\* Credential of the last successful one.
C18_LastSuccessfulWins ==
  [][ OvertakenAnswered => cache' = cache ]_vars

\* ---------------------------------------------------------------- C28
\* C28: for every stage identifier (a known GUID in any letter case, an
\* unknown one, empty or absent) getPhaseNameFromStageId(id) is the display
\* name of phase getPhaseFromStageId(id): the badge of a dashboard row names
\* the phase list the row is placed in and is one of the four phase names.
C28_BadgeNamesPhaseList ==
  (view.rendered.dashboard /\ view.rendered.badges) =>
    \A i \in DOMAIN view.vorhaben :
      /\ view.badges[i] = PhaseNames[ListOf(view.vorhaben[i].id)]
      /\ view.badges[i] \in { PhaseNames[k] : k \in Phases }

\* ---------------------------------------------------------------- C29
\* C29: in every state of the Credential store and at every instant
\* getAuthStatus().isAuthenticated equals isAuthenticated(); expiresIn is
\* present iff isAuthenticated is true, and then it is the whole number of
\* seconds in expiresAt - now, rounded down, and is not negative.
C29_AuthStatusAgrees ==
  LET st == getAuthStatus(loadTokenCache, now) IN
  /\ st.isAuthenticated <=> isAuthenticated(loadTokenCache, now)
  /\ (st.expiresIn # NoExpiresIn) <=> st.isAuthenticated
  /\ st.isAuthenticated =>
       /\ st.expiresIn >= 0
       /\ st.expiresIn * 1000 <= cache.expiresAt - now
       /\ cache.expiresAt - now < (st.expiresIn + 1) * 1000
  /\ Called("getAuthStatus") =>
       /\ last.flag <=> isAuthenticated(loadTokenCache, now)
       /\ last.expiresIn = st.expiresIn

\* the status was read 1 ms after a Credential valid for 300 s was stored:
\* 299 whole seconds remain
C29_Witness ==
  /\ Called("getAuthStatus") /\ last.flag
  /\ cache.expiresAt - now = 299999
  /\ last.expiresIn = 299

\* ---------------------------------------------------------------- C26
\* the stored Credential carries a refresh token, so that getValidToken()
\* would send a refresh request for it once it is inside the buffer
Refreshable ==
  cache.exists /\ cache.accessToken # Undef /\ cache.refreshToken # Undef

\* C26: a data route answers 401 at its isAuthenticated() gate only when
\* getValidToken() could not have produced a token: with a Credential stored
\* that carries a refresh token the provider would accept, even an expired
\* one, the route reaches getValidToken() and the refresh is attempted.
C26_GateRefusesOnlyWithoutToken ==
  (last.op \in DataRoutes /\ last.status = "unauthorized") => ~Refreshable

\* ---------------------------------------------------------------- C30
\* the places (list, position) at which the record with this id is shown
PlacesOf(id) ==
  { <<k, j>> \in Phases \X (1..MaxRecords) :
      j \in DOMAIN view.phaseLists[k] /\ view.phaseLists[k][j] = id }

\* C30: on the dashboard the four phase lists partition the loaded records
\* for every record list and process-flow map: each record is in exactly
\* one list, exactly once, the lists hold nothing else, and a record without
\* process-flow entry or with an unknown stage is in Initialisierung.
C30_PhaseListsPartition ==
  view.rendered.dashboard =>
    /\ \A i \in DOMAIN view.vorhaben :
         LET id  == view.vorhaben[i].id
             bpf == view.bpfData[id]
         IN
         /\ Cardinality(PlacesOf(id)) = 1
         /\ (~bpf.exists \/ ~bpf.activeStageId.defined
               \/ bpf.activeStageId.chars = STAGE_OTHER)
              => PlacesOf(id) \subseteq ({1} \X (1..MaxRecords))
    /\ \A k \in Phases : \A j \in DOMAIN view.phaseLists[k] :
         \E i \in DOMAIN view.vorhaben :
           view.vorhaben[i].id = view.phaseLists[k][j]
    /\ Len(view.phaseLists[1]) + Len(view.phaseLists[2])
         + Len(view.phaseLists[3]) + Len(view.phaseLists[4])
       = Len(view.vorhaben)

\* two records were loaded: the one with an unknown stage is shown in
\* Initialisierung, the other in Umsetzung
C30_Witness ==
  /\ view.rendered.dashboard
  /\ Len(view.vorhaben) = 2
  /\ view.bpfData[view.vorhaben[1].id].activeStageId = Str(STAGE_OTHER)
  /\ view.phaseLists[1] = <<view.vorhaben[1].id>>
  /\ view.phaseLists[4] = <<view.vorhaben[2].id>>

\* ---------------------------------------------------------------- C24
\* C24: after logout() has completed no Credential becomes stored again
\* unless a login started after that logout succeeds; the response of a
\* refresh that was in flight inside getValidToken() when logout() ran does
\* not re-create the Credential. (No login is made here.)
C24_LogoutIsFinal ==
  [][ (Called("logout") /\ ~cache.exists) => ~cache'.exists ]_vars

\* ---------------------------------------------------------------- C27
\* C27: whenever getValidToken() returns, it returns a non-empty token that
\* is the accessToken of the Credential stored at that moment, and that
\* Credential is not expired; no interleaving with logout() or another
\* refresh makes it fail while it reads the store again after a successful
\* refresh.
C27_ReturnedTokenIsStored ==
  Called("getValidToken") =>
    /\ last.status # "typeError"
    /\ last.status = "ok" =>
         /\ last.token # Undef
         /\ cache.exists /\ last.token = cache.accessToken
         /\ cache.expiresAt > now

\* ---------------------------------------------------------------- C21
\* this step sends a poll request from LoginPrompt
PollSent == prompt.polls # prompt'.polls /\ prompt.polls \subseteq prompt'.polls

\* C21: LoginPrompt stops polling once the device code's expiresIn has
\* elapsed: no poll request is sent later than expiresIn seconds after the
\* device code was issued, even if every poll so far returned Pending or
\* failed at the network level.
C21_NoPollAfterExpiry ==
  [][ PollSent => now <= device.issuedAt + device.expires_in * 1000 ]_vars

\* ---------------------------------------------------------------- C22
\* the login attempt has ended
Ended == prompt.status \in {"success", "error"}

\* C22: every login attempt terminates: once LoginPrompt is 'waiting' it
\* eventually reaches 'success' (a Credential is stored) or 'error', and it
\* sends polls only while it is waiting; under weak fairness of the poll
\* timer and a provider that eventually answers.
C22_LoginTerminates ==
  /\ (prompt.status = "waiting") ~> Ended
  /\ [][ PollSent => prompt.status = "waiting" ]_vars
  /\ [](prompt.status = "success" => cache.exists /\ cache.accessToken # Undef)

\* ---------------------------------------------------------------- C25
\* this step handles the answer to a poll of LoginPrompt
PollHandled ==
  /\ last'.op = "poll"
  /\ prompt.polls # prompt'.polls /\ prompt'.polls \subseteq prompt.polls

\* C25: a poll response changes the state of LoginPrompt only if, when it
\* arrives, the prompt is still 'waiting' on the device code the poll was
\* sent with: after 'success' no later response of an overlapping poll
\* moves the prompt to 'error', and a late response for the device code of
\* a previous attempt does not end the current attempt.
C25_LateResponsesIgnored ==
  [][ (PollHandled /\ prompt'.status # prompt.status) =>
        (prompt.status = "waiting" /\ last'.code = prompt.deviceCode) ]_vars

\* ---------------------------------------------------------------- C23
\* C23: an authentication failure surfaces as a renewed login prompt: when
\* a page that believes it is authenticated gets an unauthorized answer to
\* a data request, its isAuthenticated becomes false and LoginPrompt is
\* shown; the page does not stay on the data view with an error banner.
C23_UnauthorizedShowsLogin ==
  (Called("GET /api/vorhaben") /\ last.http = 401) =>
    (~page.isAuthenticated /\ page.error = <<>>)

====
